---- MODULE Spec2Model ----
(***************************************************************************)
(* Model of tokio-rustls src/lib.rs: the handshake future (MidHandshake),  *)
(* the record pump (TlsStream::do_io) and the stream operations read,      *)
(* write, flush and shutdown.                                              *)
(*                                                                         *)
(* The rustls session and the transport are external to the crate.  They   *)
(* are modelled by the few facts the adapter can observe (is_handshaking,  *)
(* wants_read, wants_write, buffered plaintext) and every call into them   *)
(* picks its outcome nondeterministically.  One model step is one call     *)
(* into the session or the transport together with the adapter code that   *)
(* follows it up to the next call.                                         *)
(***************************************************************************)
EXTENDS Integers, Sequences, FiniteSets, TLC

\* ---- bounds of the model ----
MaxOut   == 2   \* most ciphertext units the session queues (sendable_tls)
MaxPlain == 2   \* most plaintext units the session buffers for read
MaxBuf   == 2   \* longest caller buffer handed to read / write
MaxPump  == 3   \* do_io invocations counted per read call (saturating)
MaxCount == 2   \* saturation point of the other call counters
MaxFlights == 4 \* most inbound handshake flights of a scripted handshake

VARIABLES
    \* TlsStream fields (lib.rs 140-145) and MidHandshake.inner (lib.rs 104).
    \* inner is "Some" while the handshake future holds the stream, "None"
    \* once poll has taken it out (line 132), and "Direct" for a stream that
    \* its owner built with TlsStream::new and no future (line 161).
    is_shutdown, eof, inner,
    \* what the adapter can observe of the session
    hs,          \* session.is_handshaking(); rustls leaves the handshake
                 \* only while it processes received records
    wants_read,  \* session.wants_read()
    outq,        \* ciphertext queued in the session; wants_write() = outq > 0
    plain,       \* plaintext the session holds for session.read
    \* control state of the single task that owns the stream
    pc,          \* position in the code
    op,          \* the public operation in progress / last returned
    caller,      \* who called do_io: "poll", "rd_zero", "rd_abort", "direct"
    ret,         \* value the last public operation returned
    io_ret,      \* value the last do_io invocation returned
    \* locals
    read_would_block, write_would_block,   \* do_io
    output, buf,                           \* write / read
    \* observations of the calls made (history only, never read by the code)
    obs,
    \* the discipline of the two collaborators: env.transport and env.session
    \* are "any" when every outcome is possible; the scripted values are
    \* described at ScriptedInit
    env

stream == <<is_shutdown, eof, inner>>
sess   == <<hs, wants_read, outq, plain>>
locals == <<read_would_block, write_would_block, output, buf>>
vars   == <<is_shutdown, eof, inner, hs, wants_read, outq, plain, pc, op,
            caller, ret, io_ret, read_would_block, write_would_block,
            output, buf, obs, env>>

Min(a, b) == IF a < b THEN a ELSE b
Sat(n)    == Min(n + 1, MaxCount)

\* ---- values ----
\* A result is a kind and a byte count (0 where the kind carries none).
Res(k, n) == [kind |-> k, n |-> n]
NoRes     == Res("None", 0)

\* io::Error::kind().  "TlsError" is the rustls error that line 187 wraps in
\* io::ErrorKind::Other; "IoErr" is a transport error that is not WouldBlock.
Kind(e) == IF e = "TlsError" THEN "Other" ELSE e

\* Outcomes of a non-blocking transport call made through the session.
IoOutcomes == {"Ok", "WouldBlock", "IoErr"}

wants_write == outq > 0

\* ---- observations ----
\* Reset at the start of every public operation.
OpObs == [pumps |-> 0, zeros |-> 0, abort_seen |-> FALSE, abort_pumps |-> 0,
          drain_wb |-> FALSE, drain_err |-> FALSE, wr_moved |-> FALSE,
          sess_writes |-> 0, accepted |-> 0, tls_writes |-> 0,
          sess_flush |-> "None", flush_res |-> "None", drained |-> FALSE,
          io_shutdowns |-> 0, io_shut_res |-> "None", notified |-> FALSE]
\* Reset at the start of every do_io invocation.
\* it_read / it_write: what the current loop iteration did with the
\* transport read / write ("skipped" or the outcome), it_*_wanted: whether
\* the session wanted it, it_moved: the iteration moved bytes, progress: the
\* invocation moved bytes or reached end-of-input.
IoObs == [pnp_failed |-> FALSE, pnp_wanted |-> FALSE, alert_writes |-> 0,
          alert_res |-> "None", it_read |-> "None", it_read_wanted |-> FALSE,
          it_write |-> "None", it_write_wanted |-> FALSE, it_moved |-> FALSE,
          progress |-> FALSE]
\* Kept for the lifetime of the stream.  eof_hs (end-of-input seen while
\* handshaking) and blocked_hs (a write would-blocked while handshaking)
\* are observations of the handshake operation.
LifeObs == [close_notifies |-> 0, shutdown_calls |-> 0, eof_hs |-> FALSE,
            reads_after_eof |-> 0, polls |-> 0, not_readys |-> 0,
            blocked_hs |-> FALSE]

Merge(f, g) == [k \in DOMAIN f \cup DOMAIN g |->
                  IF k \in DOMAIN g THEN g[k] ELSE f[k]]

Init ==
    /\ is_shutdown = FALSE
    /\ eof = FALSE
    /\ inner \in {"Some", "Direct"}
    /\ hs = TRUE
    /\ wants_read \in BOOLEAN
    /\ outq \in {0, 1}
    /\ plain = 0
    /\ pc = "idle"
    /\ op = "new"
    /\ caller = "direct"
    /\ ret = NoRes
    /\ io_ret = "None"
    /\ read_would_block = FALSE
    /\ write_would_block = FALSE
    /\ output = 0
    /\ buf = 0
    /\ obs = Merge(Merge(OpObs, IoObs), LifeObs)
    /\ env = [transport |-> "any", session |-> "any", flights |-> 0,
              sent |-> FALSE]

\* ======================================================================
\* Returning.
\* ======================================================================

\* A public operation returns v to its caller.
Return(v) ==
    /\ pc' = "idle"
    /\ ret' = v

\* Where do_io's caller continues (lines 118, 223, 226; "direct" is a call
\* of the public do_io by the owner of the stream).
Continuation ==
    CASE caller = "poll"     -> "poll_match"
      [] caller = "rd_zero"  -> "rd_zero"
      [] caller = "rd_abort" -> "rd_abort"
      [] OTHER               -> "idle"

\* do_io returns v.
IoReturn(v) ==
    /\ io_ret' = v
    /\ pc' = Continuation
    /\ ret' = IF caller = "direct" THEN Res(v, 0) ELSE ret

\* A public operation starts at position first: the locals of the previous
\* one are gone, as are the observations made of it.
Begin(name, len, first) ==
    /\ pc = "idle"
    /\ pc' = first
    /\ op' = name
    /\ buf' = len
    /\ caller' = "direct"
    /\ ret' = NoRes
    /\ io_ret' = "None"
    /\ read_would_block' = FALSE
    /\ write_would_block' = FALSE
    /\ output' = 0
    /\ obs' = [Merge(Merge(obs, OpObs), IoObs) EXCEPT
                  !.shutdown_calls = IF name = "shutdown" THEN Sat(@) ELSE @,
                  !.polls = IF name = "poll" THEN Sat(@) ELSE @]
    /\ UNCHANGED <<stream, sess, env>>

\* The caller who invokes do_io; o is what was observed up to the call.
EnterIo(who, o) ==
    /\ pc' = "io_top"
    /\ caller' = who
    /\ obs' = Merge([o EXCEPT !.pumps = Min(@ + 1, MaxPump),
                              !.abort_pumps = IF who = "rd_abort"
                                              THEN Sat(@) ELSE @], IoObs)

\* ======================================================================
\* TlsStream::do_io (lines 170-214)
\* ======================================================================

\* Faulty variant of ReadWanted: the test of eof is missing.
ReadWantedIgnoresEof == wants_read

\* Faulty variant of ReadWanted: the test of wants_read is inverted.
ReadWantedInverted == ~eof /\ ~wants_read

\* Line 172: the loop attempts a transport read.
ReadWanted == ~eof /\ wants_read

\* Faulty variant of AlertFlushWanted: the error is returned at once and
\* the alert is never flushed.
AlertFlushSkipped == FALSE

\* Line 183: after a protocol error, is the queued alert flushed?
AlertFlushWanted == wants_write

\* Faulty variant of ProtocolErrorResult: the alert write is made with `?`,
\* so its error replaces the protocol error.
ProtocolErrorMasked(alert) ==
    IF alert \in {"WouldBlock", "IoErr"} THEN alert ELSE "TlsError"

\* Line 187: what do_io returns after process_new_packets failed, given the
\* outcome of the best-effort alert write ("None" when none was made).
ProtocolErrorResult(alert) == "TlsError"

\* Faulty variant of PumpResult: would-block only if both directions block.
PumpResultBoth(rwb, wwb) == IF rwb /\ wwb THEN "WouldBlock" ELSE "Ok"

\* Faulty variant of PumpResult: a blocked write alone is not reported.
PumpResultReadOnly(rwb, wwb) == IF rwb THEN "WouldBlock" ELSE "Ok"

\* Line 208: the final decision of one loop iteration.
PumpResult(rwb, wwb) == IF rwb \/ wwb THEN "WouldBlock" ELSE "Ok"

\* Faulty variant of WriteWanted: a blocked read ends the iteration without
\* trying the write.
WriteWantedUnlessReadBlocked == wants_write /\ ~read_would_block

\* Line 198: the loop attempts a transport write.
WriteWanted == wants_write

\* ---- the collaborators, as far as a discipline restricts them ----

\* Outcomes of session.read_tls: a scripted transport always has data.
ReadOutcomes ==
    IF env.transport = "any" THEN {"Ok0", "OkN", "WouldBlock", "IoErr"}
    ELSE {"OkN"}

\* Outcomes of session.write_tls: the "block_first" transport would-blocks
\* on its first write attempt, the "ready" one never.
WriteOutcomes ==
    CASE env.transport = "any"         -> IoOutcomes
      [] env.transport = "block_first" -> {"WouldBlock"}
      [] OTHER                         -> {"Ok"}

\* env after a write attempt with result r that left q units queued: the
\* first attempt is over, and a flight written out in full has been sent.
AfterWrite(r, q) ==
    [env EXCEPT !.transport = IF @ = "block_first" THEN "ready" ELSE @,
                !.sent = @ \/ (env.session = "handshake" /\ r = "Ok"
                                                              /\ q = 0)]

\* In a TLS handshake each peer sends a flight before its handshake
\* completes, and the last inbound flight answers it: with one inbound
\* flight to go and nothing sent, the session has a flight to write.
AwaitsUs(e) == e.session = "handshake" /\ e.flights = 1 /\ ~e.sent

\* wants_read() after a call that left the session handshaking or not (h)
\* with q units queued and the script at e.  A scripted handshake always
\* wants to read or to write until it is complete, and does not read for an
\* answer to a flight it has yet to send.
WantsReadAfter(h, q, e) ==
    IF e.session = "any" THEN BOOLEAN
    ELSE {b \in BOOLEAN : /\ (h /\ q = 0) => b
                          /\ (h /\ AwaitsUs(e)) => ~b}

\* Lines 172-177, 191-196: session.read_tls(&mut self.io), or the read is
\* skipped.  A read that moved bytes goes on to process_new_packets.
DoIoRead ==
    /\ pc = "io_top"
    /\ IF ReadWanted
       THEN \E r \in ReadOutcomes :
              /\ obs' = [obs EXCEPT
                           !.reads_after_eof = IF eof THEN Sat(@) ELSE @,
                           !.eof_hs = @ \/ (op = "poll" /\ hs /\ r = "Ok0"),
                           !.it_read = r,
                           !.it_read_wanted = ~eof /\ wants_read,
                           !.it_write = "None",
                           !.it_write_wanted = FALSE,
                           !.it_moved = (r = "OkN"),
                           !.progress = @ \/ r \in {"Ok0", "OkN"}]
              /\ CASE r = "Ok0" ->
                        /\ eof' = TRUE
                        /\ pc' = "io_top"
                        /\ UNCHANGED <<read_would_block, io_ret, ret>>
                   [] r = "OkN" ->
                        /\ pc' = "io_pnp"
                        /\ UNCHANGED <<eof, read_would_block, io_ret, ret>>
                   [] r = "WouldBlock" ->
                        /\ read_would_block' = TRUE
                        /\ pc' = "io_write"
                        /\ UNCHANGED <<eof, io_ret, ret>>
                   [] r = "IoErr" ->
                        /\ IoReturn("IoErr")
                        /\ UNCHANGED <<eof, read_would_block>>
       ELSE /\ read_would_block' = FALSE
            /\ pc' = "io_write"
            /\ obs' = [obs EXCEPT
                         !.it_read = "skipped",
                         !.it_read_wanted = ~eof /\ wants_read,
                         !.it_write = "None",
                         !.it_write_wanted = FALSE,
                         !.it_moved = FALSE]
            /\ UNCHANGED <<eof, io_ret, ret>>
    /\ UNCHANGED <<is_shutdown, inner, sess, op, env, caller,
                   write_would_block, output, buf>>

\* Lines 179, 189: session.process_new_packets().  On success the session
\* may finish the handshake, decrypt plaintext, queue replies and change
\* whether it wants to read; on failure it may queue an alert.  A scripted
\* handshake takes env.flights valid inbound flights, the last of which
\* completes it; what arrives later is application data, after which the
\* session stops reading until the plaintext is taken.
DoIoProcess ==
    /\ pc = "io_pnp"
    /\ IF env.session = "any"
       THEN \E ok \in BOOLEAN, q \in outq..MaxOut :
              /\ outq' = q
              /\ IF ok
                 THEN /\ hs' \in {hs, FALSE}
                      /\ plain' \in plain..MaxPlain
                      /\ wants_read' \in BOOLEAN
                      /\ pc' = "io_top"
                      /\ UNCHANGED obs
                 ELSE /\ pc' = "io_alert"
                      /\ obs' = [obs EXCEPT !.pnp_failed = TRUE,
                                            !.pnp_wanted = (q > 0)]
                      /\ UNCHANGED <<hs, plain, wants_read>>
              /\ UNCHANGED env
       ELSE /\ IF env.flights > 0
               THEN \E q \in outq..MaxOut :
                      /\ env' = [env EXCEPT !.flights = @ - 1]
                      /\ AwaitsUs(env') => q > 0
                      /\ outq' = q
                      /\ hs' = (env.flights > 1)
                      /\ wants_read' \in
                             WantsReadAfter(env.flights > 1, q, env')
                      /\ UNCHANGED plain
               ELSE /\ plain' = Min(plain + 1, MaxPlain)
                    /\ wants_read' = FALSE
                    /\ UNCHANGED <<hs, outq, env>>
            /\ pc' = "io_top"
            /\ UNCHANGED obs
    /\ UNCHANGED <<stream, op, caller, ret, io_ret, locals>>

\* Lines 183-187: best-effort flush of the alert, then the protocol error.
DoIoAlert ==
    /\ pc = "io_alert"
    /\ IF AlertFlushWanted
       THEN \E r \in WriteOutcomes, n \in 1..outq :
              /\ outq' = IF r = "Ok" THEN outq - n ELSE outq
              /\ obs' = [obs EXCEPT !.alert_writes = Sat(@),
                                    !.alert_res = r]
              /\ IoReturn(ProtocolErrorResult(r))
       ELSE /\ IoReturn(ProtocolErrorResult("None"))
            /\ UNCHANGED <<outq, obs>>
    /\ env' = IF AlertFlushWanted THEN AfterWrite("None", outq) ELSE env
    /\ UNCHANGED <<stream, hs, wants_read, plain, op, caller, locals>>

\* Lines 198-212: session.write_tls(&mut self.io) if wanted, then the
\* decision of the iteration.
DoIoWrite ==
    /\ pc = "io_write"
    /\ IF WriteWanted
       THEN \E r \in WriteOutcomes, n \in 1..outq :
              /\ obs' = [obs EXCEPT
                           !.it_write = r,
                           !.it_write_wanted = wants_write,
                           !.it_moved = @ \/ r = "Ok",
                           !.progress = @ \/ r = "Ok",
                           !.blocked_hs = @ \/ (op = "poll" /\ hs /\
                                                r = "WouldBlock")]
              /\ env' = AfterWrite(r, outq - n)
              /\ CASE r = "Ok" ->
                        /\ outq' = outq - n
                        /\ wants_read' \in
                               WantsReadAfter(hs, outq - n, env')
                        /\ pc' = "io_top"
                        /\ UNCHANGED <<write_would_block, io_ret, ret>>
                   [] r = "WouldBlock" ->
                        /\ write_would_block' = TRUE
                        /\ IoReturn(PumpResult(read_would_block, TRUE))
                        /\ UNCHANGED <<outq, wants_read>>
                   [] r = "IoErr" ->
                        /\ IoReturn("IoErr")
                        /\ UNCHANGED <<outq, wants_read, write_would_block>>
       ELSE /\ write_would_block' = FALSE
            /\ IoReturn(PumpResult(read_would_block, FALSE))
            /\ obs' = [obs EXCEPT !.it_write = "skipped",
                                  !.it_write_wanted = wants_write]
            /\ UNCHANGED <<outq, wants_read, env>>
    /\ UNCHANGED <<stream, hs, plain, op, caller, read_would_block,
                   output, buf>>

\* The owner of a stream calls the public do_io (line 170).
CallDoIo ==
    /\ inner # "Some"
    /\ Begin("do_io", 0, "io_top")

\* ======================================================================
\* MidHandshake::poll (lines 113-133)
\* ======================================================================

\* Faulty variant of PollMatch: the (true, true) arm is missing, so a pump
\* that succeeded at end-of-input falls through to the break.
PollMatchNoEofArm(r, at_eof, handshaking) ==
    IF r = "Ok"
    THEN IF ~at_eof /\ handshaking THEN "continue" ELSE "Ready"
    ELSE CASE Kind(r) = "WouldBlock" /\ handshaking  -> "NotReady"
           [] Kind(r) = "WouldBlock" /\ ~handshaking -> "Ready"
           [] OTHER                                  -> r

\* Faulty variant of PollMatch: a would-block suspends the operation also
\* when the handshake is over.
PollMatchBlockSuspends(r, at_eof, handshaking) ==
    IF r = "Ok"
    THEN CASE at_eof /\ handshaking  -> "UnexpectedEof"
           [] ~at_eof /\ handshaking -> "continue"
           [] OTHER                  -> "Ready"
    ELSE IF Kind(r) = "WouldBlock" THEN "NotReady" ELSE r

\* Faulty variant of PollMatch: every pump error suspends the operation.
PollMatchErrSuspends(r, at_eof, handshaking) ==
    IF r = "Ok"
    THEN CASE at_eof /\ handshaking  -> "UnexpectedEof"
           [] ~at_eof /\ handshaking -> "continue"
           [] OTHER                  -> "Ready"
    ELSE IF Kind(r) = "WouldBlock" /\ ~handshaking THEN "Ready"
         ELSE "NotReady"

\* Lines 119-128: what poll does with do_io's result: "Ready" (break),
\* "continue", or the value it returns.
PollMatch(r, at_eof, handshaking) ==
    IF r = "Ok"
    THEN CASE at_eof /\ handshaking  -> "UnexpectedEof"
           [] ~at_eof /\ handshaking -> "continue"
           [] OTHER                  -> "Ready"
    ELSE CASE Kind(r) = "WouldBlock" /\ handshaking  -> "NotReady"
           [] Kind(r) = "WouldBlock" /\ ~handshaking -> "Ready"
           [] OTHER                                  -> r

\* The executor polls the future (line 113).
CallPoll ==
    /\ inner = "Some"
    /\ Begin("poll", 0, "poll_top")

\* Lines 115-118 and 132: leave the loop when the handshake is over and
\* yield the stream, else run the pump.
PollTop ==
    /\ pc = "poll_top"
    /\ IF ~hs
       THEN /\ inner' = "None"
            /\ Return(Res("Ready", 0))
            /\ UNCHANGED <<caller, obs>>
       ELSE /\ EnterIo("poll", obs)
            /\ UNCHANGED <<inner, ret>>
    /\ UNCHANGED <<is_shutdown, eof, sess, op, env, io_ret, locals>>

\* Lines 119-128 and 132.  An Err ends the future: it is not polled again.
PollAfterIo ==
    /\ pc = "poll_match"
    /\ LET m == PollMatch(io_ret, eof, hs) IN
         CASE m = "continue" ->
                /\ pc' = "poll_top"
                /\ UNCHANGED <<inner, ret>>
           [] m = "Ready" ->
                /\ inner' = "None"
                /\ Return(Res("Ready", 0))
           [] m = "NotReady" ->
                /\ Return(Res("NotReady", 0))
                /\ UNCHANGED inner
           [] OTHER ->
                /\ pc' = "failed"
                /\ ret' = Res(m, 0)
                /\ UNCHANGED inner
    /\ obs' = [obs EXCEPT !.not_readys =
                  IF ret'.kind = "NotReady" THEN Sat(@) ELSE @]
    /\ UNCHANGED <<is_shutdown, eof, sess, op, env, caller, io_ret, locals>>

\* ======================================================================
\* io::Read for TlsStream (lines 220-233)
\* ======================================================================

\* Faulty variant of PumpOnZero: the guard on eof is inverted.
PumpOnZeroAtEof(n, at_eof) == n = 0 /\ at_eof

\* Line 223: a zero-length plaintext read runs the pump and retries.
PumpOnZero(n, at_eof) == n = 0 /\ ~at_eof

\* Faulty variant of AbortResult: an abort always reads as a clean close.
AbortAlwaysClean(at_eof) == Res("Ok", 0)

\* Line 227: the result after the pump that follows a ConnectionAborted.
AbortResult(at_eof) ==
    IF at_eof THEN Res("Ok", 0) ELSE Res("ConnectionAborted", 0)

\* Lines 223, 226: the `?` after do_io: TRUE when the pump's error is
\* returned to the caller of read.
Propagates(r) == r # "Ok"

\* Byte counts session.read may produce for a buffer of len bytes.
ReadCounts(len) ==
    IF Min(plain, len) > 0 THEN 1..Min(plain, len) ELSE {0}

\* The owner of the stream calls read (line 220).
CallRead ==
    /\ inner # "Some"
    /\ \E len \in 0..MaxBuf : Begin("read", len, "rd_loop")

\* Lines 222-230: session.read(buf) and the match on its result.
ReadSess ==
    /\ pc = "rd_loop"
    /\ \E r \in {"Ok", "ConnectionAborted", "SessErr"} :
         CASE r = "Ok" ->
                \E n \in ReadCounts(buf) :
                  LET o == [obs EXCEPT !.zeros = IF n = 0 /\ ~eof
                                                 THEN Min(@ + 1, MaxPump)
                                                 ELSE @]
                  IN /\ plain' = plain - n
                     /\ wants_read' \in BOOLEAN
                     /\ IF PumpOnZero(n, eof)
                        THEN /\ EnterIo("rd_zero", o)
                             /\ UNCHANGED ret
                        ELSE /\ Return(Res("Ok", n))
                             /\ obs' = o
                             /\ UNCHANGED caller
           [] r = "ConnectionAborted" ->
                /\ plain = 0
                /\ EnterIo("rd_abort", [obs EXCEPT !.abort_seen = TRUE])
                /\ UNCHANGED <<plain, wants_read, ret>>
           [] r = "SessErr" ->
                /\ Return(Res("SessErr", 0))
                /\ UNCHANGED <<plain, wants_read, caller, obs>>
    /\ UNCHANGED <<stream, hs, outq, op, env, io_ret, locals>>


\* Line 223: after the pump that followed a zero-length plaintext read.
ReadAfterZero ==
    /\ pc = "rd_zero"
    /\ IF Propagates(io_ret)
       THEN Return(Res(io_ret, 0))
       ELSE /\ pc' = "rd_loop"
            /\ UNCHANGED ret
    /\ UNCHANGED <<stream, sess, op, env, caller, io_ret, locals, obs>>

\* Lines 226-227: after the pump that followed a ConnectionAborted.
ReadAfterAbort ==
    /\ pc = "rd_abort"
    /\ IF Propagates(io_ret)
       THEN Return(Res(io_ret, 0))
       ELSE Return(AbortResult(eof))
    /\ UNCHANGED <<stream, sess, op, env, caller, io_ret, locals, obs>>

\* ======================================================================
\* io::Write for TlsStream: write (lines 239-265)
\* ======================================================================

\* Faulty variant of DrainBlocked: a blocked drain is always reported as
\* would-block, also when the session accepted bytes.
DrainBlockedAlways(out) == Res("WouldBlock", 0)

\* Lines 250-255: the drain would-blocks: the value write returns.
DrainBlocked(out) ==
    IF out = 0 THEN Res("WouldBlock", 0) ELSE Res("Ok", out)

\* The owner of the stream calls write (line 239).
CallWrite ==
    /\ inner # "Some"
    /\ \E len \in 0..MaxBuf : Begin("write", len, "wr_empty")

\* Faulty variant of EmptyBuffer: the early return is missing.
EmptyBufferUnchecked(len) == FALSE

\* Line 240: buf.is_empty()
EmptyBuffer(len) == len = 0

\* Lines 240-242: an empty buffer returns Ok(0) at once.
WriteEmpty ==
    /\ pc = "wr_empty"
    /\ IF EmptyBuffer(buf)
       THEN Return(Res("Ok", 0))
       ELSE /\ pc' = "wr_sess"
            /\ UNCHANGED ret
    /\ UNCHANGED <<stream, sess, op, env, caller, io_ret, locals, obs>>

\* Line 245: session.write(buf)?.  The session accepts 0..len bytes and
\* may turn them into queued ciphertext.
WriteSess ==
    /\ pc = "wr_sess"
    /\ \E ok \in BOOLEAN, n \in 0..buf, q \in outq..MaxOut :
         IF ok
         THEN /\ n = 0 => q = outq
              /\ output' = n
              /\ outq' = q
              /\ pc' = "wr_drain"
              /\ obs' = [obs EXCEPT !.sess_writes = Sat(@),
                                    !.accepted = Min(@ + n, MaxBuf + 1),
                                    !.wr_moved = (n > 0)]
              /\ UNCHANGED ret
         ELSE /\ n = 0 /\ q = outq
              /\ Return(Res("SessErr", 0))
              /\ obs' = [obs EXCEPT !.sess_writes = Sat(@)]
              /\ UNCHANGED <<output, outq>>
    /\ UNCHANGED <<stream, hs, wants_read, plain, op, env, caller, io_ret,
                   read_would_block, write_would_block, buf>>

\* Faulty variant of WriteDone: the test is off by one, so a write that
\* accepted one byte goes round the loop again.
WriteDoneOffByOne(out) == out > 1

\* Line 260: the loop ends once the session accepted something.
WriteDone(out) == out > 0

\* Lines 247-263: the drain loop and the decision after it.
WriteDrain ==
    /\ pc = "wr_drain"
    /\ IF wants_write
       THEN \E r \in IoOutcomes, n \in 1..outq :
              /\ obs' = [obs EXCEPT !.tls_writes = Sat(@),
                                    !.drain_wb = (r = "WouldBlock"),
                                    !.drain_err = (r = "IoErr"),
                                    !.wr_moved = @ \/ r = "Ok"]
              /\ CASE r = "Ok" ->
                        /\ outq' = outq - n
                        /\ wants_read' \in BOOLEAN
                        /\ UNCHANGED <<pc, ret>>
                   [] r = "WouldBlock" ->
                        /\ Return(DrainBlocked(output))
                        /\ UNCHANGED <<outq, wants_read>>
                   [] r = "IoErr" ->
                        /\ Return(Res("IoErr", 0))
                        /\ UNCHANGED <<outq, wants_read>>
       ELSE /\ IF WriteDone(output)
               THEN Return(Res("Ok", output))
               ELSE /\ pc' = "wr_sess"
                    /\ UNCHANGED ret
            /\ UNCHANGED <<outq, wants_read, obs>>
    /\ UNCHANGED <<stream, hs, plain, op, env, caller, io_ret, locals>>

\* ======================================================================
\* io::Write for TlsStream: flush (lines 267-273)
\* ======================================================================

\* Faulty variant of Question: the result is dropped (`let _ =`), so the
\* function goes on after an error.
QuestionDropped(r) == "go"

\* The `?` of lines 268 and 270: "go" on success, else the error is
\* returned.
Question(r) == IF r = "Ok" THEN "go" ELSE r

\* The owner of the stream calls flush (line 267).
CallFlush ==
    /\ inner # "Some"
    /\ Begin("flush", 0, "fl_sess")

\* Line 268: self.session.flush()?
FlushSess ==
    /\ pc = "fl_sess"
    /\ \E ok \in BOOLEAN, q \in outq..MaxOut :
         /\ obs' = [obs EXCEPT !.sess_flush =
                                 IF ok THEN "Ok" ELSE "SessErr"]
         /\ IF Question(IF ok THEN "Ok" ELSE "SessErr") = "go"
            THEN /\ outq' = q
                 /\ pc' = "fl_drain"
                 /\ UNCHANGED ret
            ELSE /\ q = outq
                 /\ Return(Res("SessErr", 0))
                 /\ UNCHANGED outq
    /\ UNCHANGED <<stream, hs, wants_read, plain, op, env, caller, io_ret,
                   locals>>

\* Lines 269-271: self.session.write_tls(&mut self.io)? while wanted.
FlushDrain ==
    /\ pc = "fl_drain"
    /\ wants_write
    /\ \E r \in IoOutcomes, n \in 1..outq :
         /\ obs' = [obs EXCEPT !.tls_writes = Sat(@),
                               !.drain_wb = (r = "WouldBlock")]
         /\ IF Question(r) = "go"
            THEN /\ outq' = outq - n
                 /\ wants_read' \in BOOLEAN
                 /\ UNCHANGED <<pc, ret>>
            ELSE /\ Return(Res(r, 0))
                 /\ UNCHANGED <<outq, wants_read>>
    /\ UNCHANGED <<stream, hs, plain, op, env, caller, io_ret, locals>>

\* Line 272: self.io.flush()
FlushIo ==
    /\ pc = "fl_drain"
    /\ ~wants_write
    /\ \E r \in IoOutcomes :
         /\ Return(Res(r, 0))
         /\ obs' = [obs EXCEPT !.flush_res = r,
                               !.drained = ~wants_write]
    /\ UNCHANGED <<stream, sess, op, env, caller, io_ret, locals>>

\* ======================================================================
\* AsyncWrite for TlsStream: shutdown (lines 287-297)
\* ======================================================================

\* Faulty variant of NeedCloseNotify: the guard on is_shutdown is missing.
CloseNotifyAlways == TRUE

\* Line 288: is the close-notify still to be sent?
NeedCloseNotify == ~is_shutdown

\* Faulty variant of FlagAfterShutdown: the flag is toggled on every call.
FlagToggled(was) == ~was

\* Lines 288-291: is_shutdown after the first step of shutdown.
FlagAfterShutdown(was) == IF ~was THEN TRUE ELSE was

\* Faulty variant of TryNb: a would-block is taken for success.
TryNbIgnoresBlock(r) == IF r \in {"Ok", "WouldBlock"} THEN "go" ELSE r

\* try_nb! (lines 293, 295): "go" on success, else the value shutdown
\* returns.
TryNb(r) ==
    CASE r = "Ok"         -> "go"
      [] r = "WouldBlock" -> "NotReady"
      [] OTHER            -> r

\* The owner of the stream calls shutdown (line 287).
CallShutdown ==
    /\ inner # "Some"
    /\ Begin("shutdown", 0, "sd_notify")

\* Lines 288-291: send_close_notify once, and remember it.
ShutNotify ==
    /\ pc = "sd_notify"
    /\ IF NeedCloseNotify
       THEN /\ outq' = Min(outq + 1, MaxOut)
            /\ obs' = [obs EXCEPT !.close_notifies = Sat(@),
                                  !.notified = TRUE]
       ELSE UNCHANGED <<outq, obs>>
    /\ is_shutdown' = FlagAfterShutdown(is_shutdown)
    /\ pc' = "sd_drain"
    /\ UNCHANGED <<eof, inner, hs, wants_read, plain, op, env, caller, ret,
                   io_ret, locals>>

\* Lines 292-294: try_nb!(self.session.write_tls(&mut self.io)) while wanted.
ShutDrain ==
    /\ pc = "sd_drain"
    /\ wants_write
    /\ \E r \in IoOutcomes, n \in 1..outq :
         /\ obs' = [obs EXCEPT !.tls_writes = Sat(@),
                               !.drain_wb = (r = "WouldBlock")]
         /\ IF TryNb(r) = "go"
            THEN /\ outq' = outq - n
                 /\ wants_read' \in BOOLEAN
                 /\ UNCHANGED <<pc, ret>>
            ELSE /\ Return(Res(TryNb(r), 0))
                 /\ UNCHANGED <<outq, wants_read>>
    /\ UNCHANGED <<stream, hs, plain, op, env, caller, io_ret, locals>>

\* Line 295: try_nb!(self.io.flush())
ShutFlush ==
    /\ pc = "sd_drain"
    /\ ~wants_write
    /\ \E r \in IoOutcomes :
         /\ obs' = [obs EXCEPT !.flush_res = r]
         /\ IF TryNb(r) = "go"
            THEN /\ pc' = "sd_io"
                 /\ UNCHANGED ret
            ELSE Return(Res(TryNb(r), 0))
    /\ UNCHANGED <<stream, sess, op, env, caller, io_ret, locals>>

\* Line 296: self.io.shutdown(), returned as it is.
ShutIo ==
    /\ pc = "sd_io"
    /\ \E r \in {"Ready", "NotReady", "IoErr"} :
         /\ Return(Res(r, 0))
         /\ obs' = [obs EXCEPT !.io_shutdowns = Sat(@),
                               !.io_shut_res = r,
                               !.drained = ~wants_write]
    /\ UNCHANGED <<stream, sess, op, env, caller, io_ret, locals>>

Next ==
    \/ CallDoIo
    \/ DoIoRead
    \/ DoIoProcess
    \/ DoIoAlert
    \/ DoIoWrite
    \/ CallPoll
    \/ PollTop
    \/ PollAfterIo
    \/ CallRead
    \/ ReadSess
    \/ ReadAfterZero
    \/ ReadAfterAbort
    \/ CallWrite
    \/ WriteEmpty
    \/ WriteSess
    \/ WriteDrain
    \/ CallFlush
    \/ FlushSess
    \/ FlushDrain
    \/ FlushIo
    \/ CallShutdown
    \/ ShutNotify
    \/ ShutDrain
    \/ ShutFlush
    \/ ShutIo

Spec == Init /\ [][Next]_vars

\* ---- scripted handshakes ----
\* A handshake future over a scripted transport and a session that is fed a
\* valid handshake: reads always deliver data, process_new_packets never
\* fails, the handshake completes with the last of env.flights inbound
\* flights, and a handshaking session always wants to read or to write.
\* mode "ready": no transport operation ever would-blocks; mode
\* "block_first": the first write attempt would-blocks, every operation
\* after it succeeds.
ScriptedInit(mode) ==
    /\ is_shutdown = FALSE
    /\ eof = FALSE
    /\ inner = "Some"
    /\ hs = TRUE
    /\ outq \in {0, 1}
    /\ plain = 0
    /\ pc = "idle"
    /\ op = "new"
    /\ caller = "direct"
    /\ ret = NoRes
    /\ io_ret = "None"
    /\ read_would_block = FALSE
    /\ write_would_block = FALSE
    /\ output = 0
    /\ buf = 0
    /\ obs = Merge(Merge(OpObs, IoObs), LifeObs)
    /\ \E k \in 1..MaxFlights :
         /\ env = [transport |-> mode, session |-> "handshake",
                   flights |-> k, sent |-> FALSE]
         /\ AwaitsUs(env) => outq > 0
         /\ wants_read \in WantsReadAfter(TRUE, outq, env)

\* The steps of the handshake operation.
NextHandshake ==
    \/ CallPoll
    \/ PollTop
    \/ PollAfterIo
    \/ DoIoRead
    \/ DoIoProcess
    \/ DoIoWrite

\* The executor keeps polling and the task keeps running.
SpecBlockFirst ==
    ScriptedInit("block_first") /\ [][NextHandshake]_vars
        /\ WF_vars(NextHandshake)

SpecReady ==
    ScriptedInit("ready") /\ [][NextHandshake]_vars /\ WF_vars(NextHandshake)

\* ======================================================================
\* Properties
\* ======================================================================

\* A public operation has returned and its result is in ret.
Returned(name) == op = name /\ pc \in {"idle", "failed"}

\* C1 (alert before error): when process_new_packets fails and the session
\* wants to write at that moment, exactly one write_tls is attempted between
\* the failure and the return of the protocol error; do_io never returns a
\* protocol error with wanted ciphertext and no write attempt.
AlertBeforeError ==
    /\ pc = "io_alert" => obs.pnp_failed /\ obs.alert_writes = 0
    /\ (io_ret = "TlsError" /\ obs.pnp_wanted) => obs.alert_writes = 1

AlertBeforeErrorWitness ==
    /\ io_ret = "TlsError"
    /\ obs.pnp_wanted
    /\ obs.alert_writes = 1

\* C2 (error priority): once process_new_packets has failed, do_io returns
\* the protocol error (kind Other) whatever the alert write did, and a poll
\* that ran that pump fails with it: it never suspends.
ErrorPriority ==
    (obs.pnp_failed /\ pc # "io_alert") =>
        /\ io_ret = "TlsError"
        /\ Kind(io_ret) = "Other"
        /\ (op = "poll" /\ pc # "poll_match") =>
               (pc = "failed" /\ ret = Res("TlsError", 0))

ErrorPriorityWitness ==
    /\ Returned("poll")
    /\ obs.pnp_failed
    /\ obs.alert_res = "WouldBlock"
    /\ ret = Res("TlsError", 0)

\* C3 as stated (handshake fatal-eof): after end-of-input was observed while
\* the session was handshaking, the handshake operation fails with
\* UnexpectedEof and never yields the stream.
FatalEofAsStated ==
    (op = "poll" /\ obs.eof_hs) =>
        /\ ret.kind # "Ready"
        /\ pc = "failed" => ret.kind = "UnexpectedEof"

\* C3 as amended: after end-of-input was observed while the session was
\* handshaking, the handshake operation never yields the stream; a poll
\* whose pump succeeds fails with UnexpectedEof, and the only other failure
\* is the transport error of a wanted write.
FatalEof ==
    (op = "poll" /\ obs.eof_hs) =>
        /\ ret.kind # "Ready"
        /\ inner = "Some"
        /\ hs
        /\ pc = "failed" =>
             ret.kind = (IF io_ret = "Ok" THEN "UnexpectedEof" ELSE "IoErr")
        /\ (pc = "idle" /\ ret # NoRes) => ret.kind = "NotReady"

FatalEofWitness ==
    /\ op = "poll"
    /\ obs.eof_hs
    /\ pc = "failed"
    /\ ret.kind = "UnexpectedEof"

\* C4 (backpressure of write): when the last write_tls of a write call
\* would-blocks, write returns would-block if the session accepted 0 bytes
\* and Ok(n) if it accepted n > 0; the ciphertext stays queued.
Backpressure ==
    (Returned("write") /\ obs.drain_wb) =>
        /\ output = 0 => ret = Res("WouldBlock", 0)
        /\ output > 0 => ret = Res("Ok", output)
        /\ wants_write

BackpressureWitness ==
    /\ Returned("write")
    /\ obs.drain_wb
    /\ output > 0
    /\ ret = Res("Ok", output)

\* C5 (flag monotonicity): eof and is_shutdown start false and no step of
\* any operation changes either from true to false.
FlagsMonotonic ==
    /\ ~eof /\ ~is_shutdown
    /\ [][(eof => eof') /\ (is_shutdown => is_shutdown')]_vars

FlagsMonotonicWitness ==
    /\ eof
    /\ is_shutdown
    /\ obs.shutdown_calls = 2
    /\ Returned("read")
    /\ ret.kind = "WouldBlock"

\* C6 (zero-length write): write with an empty buffer returns Ok(0) in one
\* step that leaves the stream, the session and the record of calls as
\* they were, and it has made no session or transport call.
ZeroLengthWrite ==
    /\ [][(pc = "wr_empty" /\ buf = 0) =>
            /\ pc' = "idle"
            /\ ret' = Res("Ok", 0)
            /\ UNCHANGED <<stream, sess, obs>>]_vars
    /\ [](Returned("write") /\ buf = 0 =>
            /\ ret = Res("Ok", 0)
            /\ obs.sess_writes = 0
            /\ obs.tls_writes = 0)

ZeroLengthWriteWitness ==
    /\ Returned("write")
    /\ buf = 0
    /\ wants_write
    /\ ret = Res("Ok", 0)

\* C7 as stated (read retry): a read call that saw a zero-length plaintext
\* read while eof was false has run the pump exactly once when it returns,
\* and returns would-block if that pump did.
ReadRetryAsStated ==
    (Returned("read") /\ obs.zeros > 0) =>
        /\ obs.pumps = 1
        /\ io_ret = "WouldBlock" => ret = Res("WouldBlock", 0)

\* C7 as amended: every zero-length plaintext read while eof is false is
\* followed by exactly one pump before the next plaintext read or the
\* return, so the call runs the pump at least once and possibly more often;
\* if a pump returns would-block, read returns would-block.
ReadRetry ==
    op = "read" =>
        /\ obs.pumps = Min(obs.zeros + obs.abort_pumps, MaxPump)
        /\ (pc = "idle" /\ obs.zeros > 0) => obs.pumps >= 1
        /\ (pc = "idle" /\ io_ret = "WouldBlock") =>
               ret = Res("WouldBlock", 0)

ReadRetryWitness ==
    /\ Returned("read")
    /\ obs.zeros = 2
    /\ obs.pumps = 2
    /\ io_ret = "WouldBlock"
    /\ ret = Res("WouldBlock", 0)

\* C8 (clean close): read returns Ok(0) only with eof true; after a
\* ConnectionAborted from the session it runs the pump once and returns the
\* pump's error if it failed, else Ok(0) if eof and the abort if not.
CleanClose ==
    Returned("read") =>
        /\ ret = Res("Ok", 0) => eof
        /\ obs.abort_seen =>
             /\ obs.abort_pumps = 1
             /\ ret = (IF io_ret # "Ok" THEN Res(io_ret, 0)
                       ELSE IF eof THEN Res("Ok", 0)
                       ELSE Res("ConnectionAborted", 0))

CleanCloseWitness ==
    /\ Returned("read")
    /\ obs.abort_seen
    /\ io_ret = "Ok"
    /\ eof
    /\ ret = Res("Ok", 0)

\* C9 (shutdown idempotence): send_close_notify is invoked at most once, in
\* the first shutdown call, and is_shutdown is true from then on whatever
\* the calls return.
ShutdownOnce ==
    /\ obs.close_notifies <= 1
    /\ (obs.close_notifies = 1) <=> is_shutdown
    /\ (op = "shutdown" /\ obs.notified) => obs.shutdown_calls = 1
    /\ (obs.shutdown_calls > 0 /\ pc # "sd_notify") => is_shutdown

ShutdownOnceWitness ==
    /\ Returned("shutdown")
    /\ obs.shutdown_calls = 2
    /\ obs.close_notifies = 1
    /\ ret.kind = "NotReady"

\* C10 (shutdown ordering): the transport's shutdown is invoked at most once
\* per call, only when the session wants no write and the transport flush
\* of this call succeeded; a would-block of the drain or the flush returns
\* NotReady without it; its result is returned unchanged.
ShutdownOrder ==
    op = "shutdown" =>
        /\ pc = "sd_io" => (~wants_write /\ obs.flush_res = "Ok")
        /\ obs.io_shutdowns > 0 =>
             /\ obs.io_shutdowns = 1
             /\ obs.drained
             /\ obs.flush_res = "Ok"
             /\ ret = Res(obs.io_shut_res, 0)
        /\ (pc = "idle" /\ (obs.drain_wb \/ obs.flush_res = "WouldBlock")) =>
             /\ ret = Res("NotReady", 0)
             /\ obs.io_shutdowns = 0

ShutdownOrderWitness ==
    /\ Returned("shutdown")
    /\ obs.io_shutdowns = 1
    /\ obs.tls_writes > 0
    /\ ret = Res("Ready", 0)

\* do_io has just returned to its caller, which has not yet acted.
IoJustReturned ==
    \/ pc \in {"poll_match", "rd_zero", "rd_abort"}
    \/ op = "do_io" /\ pc = "idle"

\* C11 (handshake completion): poll yields Ready only with is_handshaking()
\* false, and does so whenever the pump returned success or would-block and
\* the handshake is over; it returns NotReady only when the pump returned
\* would-block while still handshaking.
HandshakeCompletion ==
    /\ [](op = "poll" /\ ret.kind = "Ready" => ~hs /\ inner = "None")
    /\ [](op = "poll" /\ ret.kind = "NotReady" =>
            hs /\ io_ret = "WouldBlock")
    /\ [][(pc = "poll_match" /\ ~hs /\ io_ret \in {"Ok", "WouldBlock"}) =>
            (ret'.kind = "Ready" /\ inner' = "None")]_vars

HandshakeCompletionWitness ==
    /\ Returned("poll")
    /\ ret.kind = "Ready"
    /\ io_ret = "WouldBlock"
    /\ wants_write

NeverBlocking ==
    /\ [](ret.kind # "NotReady" /\ pc # "failed" /\ obs.polls <= 1)
    /\ <>(Returned("poll") /\ ret.kind = "Ready" /\ obs.polls = 1)

NeverBlockingWitness ==
    /\ Returned("poll")
    /\ ret.kind = "Ready"
    /\ obs.polls = 1
    /\ env.flights = 0
    /\ obs.progress

\* C14 (pump exhausts progress): do_io returns would-block only from an
\* iteration in which the read was not wanted or would-blocked, the write
\* was not wanted or would-blocked, one of the two did block and no bytes
\* moved; a transport read or write that moves bytes restarts the loop.
PumpExhausts ==
    /\ []((IoJustReturned /\ io_ret = "WouldBlock") =>
            /\ obs.it_read \in {"skipped", "WouldBlock"}
            /\ obs.it_read = "skipped" => ~obs.it_read_wanted
            /\ obs.it_write \in {"skipped", "WouldBlock"}
            /\ obs.it_write = "skipped" => ~obs.it_write_wanted
            /\ obs.it_read = "WouldBlock" \/ obs.it_write = "WouldBlock"
            /\ ~obs.it_moved)
    /\ [][(pc \in {"io_top", "io_write"} /\ obs'.it_moved) =>
            pc' \in {"io_pnp", "io_top"}]_vars

PumpExhaustsWitness ==
    /\ IoJustReturned
    /\ io_ret = "WouldBlock"
    /\ obs.it_read = "WouldBlock"
    /\ obs.it_write = "WouldBlock"

\* C15 (pump success): when do_io returns success the session wants no
\* write, wants no read unless eof is true, and nothing would-blocked in
\* the final iteration.
PumpSuccess ==
    (IoJustReturned /\ io_ret = "Ok") =>
        /\ ~wants_write
        /\ ~wants_read \/ eof
        /\ ~read_would_block /\ ~write_would_block
        /\ obs.it_read = "skipped" /\ obs.it_write = "skipped"

PumpSuccessWitness ==
    /\ IoJustReturned
    /\ io_ret = "Ok"
    /\ eof
    /\ wants_read

\* C16 (no transport read after end-of-input): no operation calls read_tls
\* once eof is true, even if the session wants to read; the pump still
\* attempts the writes the session wants.
NoReadAfterEof ==
    /\ [](obs.reads_after_eof = 0)
    /\ [][(pc = "io_top" /\ eof) =>
            (pc' = "io_write" /\ obs'.it_read = "skipped")]_vars
    /\ [][(pc = "io_write" /\ eof /\ wants_write) =>
            obs'.it_write \in IoOutcomes]_vars

NoReadAfterEofWitness ==
    /\ eof
    /\ wants_read
    /\ pc = "io_top"
    /\ obs.it_write = "Ok"

\* C17 (transport errors): a transport error other than would-block ends
\* do_io in the step of the failing call, with that error, eof and the
\* session untouched; poll then fails with it, and write returns a drain
\* error even when the session accepted bytes.
ErrorsPropagate ==
    /\ []((obs.it_read = "IoErr" \/ obs.it_write = "IoErr") =>
            (io_ret = "IoErr" /\
             pc \notin {"io_top", "io_pnp", "io_alert", "io_write"}))
    /\ [][(pc = "io_top" /\ obs'.it_read = "IoErr") =>
            (io_ret' = "IoErr" /\ UNCHANGED <<eof, sess>>)]_vars
    /\ [][(pc = "io_write" /\ obs'.it_write = "IoErr") =>
            (io_ret' = "IoErr" /\ UNCHANGED <<eof, sess>>)]_vars
    /\ []((op = "poll" /\ io_ret = "IoErr" /\ pc # "poll_match") =>
            (pc = "failed" /\ ret = Res("IoErr", 0)))
    /\ []((Returned("write") /\ obs.drain_err) => ret = Res("IoErr", 0))

ErrorsPropagateWitness ==
    /\ Returned("write")
    /\ obs.drain_err
    /\ output > 0
    /\ ret = Res("IoErr", 0)

\* C18 as stated (flush drains): flush calls the session's flush, drains,
\* then flushes the transport; it returns success only drained and flushed,
\* and it returns only once the drain is complete or a real error occurred.
FlushDrainsAsStated ==
    Returned("flush") =>
        /\ ret = Res("Ok", 0) => (~wants_write /\ obs.flush_res = "Ok")
        /\ obs.drained \/ ret.kind \in {"IoErr", "SessErr"}

\* C18 as amended: flush calls the session's flush, then write_tls while the
\* session wants to write, then the transport's flush; it returns success
\* only drained and flushed; a would-block of the drain is returned at once
\* like any other error, with ciphertext still queued and the transport not
\* flushed.
FlushDrains ==
    op = "flush" =>
        /\ pc # "fl_sess" => obs.sess_flush # "None"
        /\ obs.tls_writes > 0 => obs.sess_flush = "Ok"
        /\ obs.flush_res # "None" => (obs.sess_flush = "Ok" /\ obs.drained)
        /\ (pc = "idle" /\ ret = Res("Ok", 0)) =>
               (~wants_write /\ obs.flush_res = "Ok")
        /\ (pc = "idle" /\ obs.drain_wb) =>
               /\ ret = Res("WouldBlock", 0)
               /\ wants_write
               /\ obs.flush_res = "None"

FlushDrainsWitness ==
    /\ Returned("flush")
    /\ obs.drain_wb
    /\ obs.tls_writes = 2
    /\ ret = Res("WouldBlock", 0)

\* C19 (no spinning): no loop of read, poll or write goes round again
\* without progress: read and poll retry only after a pump that moved bytes
\* or reached end-of-input, write only after the session accepted or the
\* transport took bytes.  An iteration without progress leaves everything
\* as it was, so the loop never ends.
NoSpin ==
    /\ (op = "read" /\ pc = "rd_loop" /\ obs.pumps > 0) => obs.progress
    /\ (op = "poll" /\ pc = "poll_top" /\ obs.pumps > 0) => obs.progress
    /\ (op = "write" /\ pc = "wr_sess" /\ obs.sess_writes > 0) =>
           obs.wr_moved

\* C20 (write accounting): write on a non-empty buffer returns Ok(n) only
\* with n > 0 bytes accepted, all by the last session.write of the call, and
\* returns would-block only with nothing accepted.
WriteAccounting ==
    (Returned("write") /\ buf > 0) =>
        /\ ret.kind = "Ok" =>
             (ret.n > 0 /\ ret.n = output /\ ret.n = obs.accepted)
        /\ ret.kind = "WouldBlock" => obs.accepted = 0

WriteAccountingWitness ==
    /\ Returned("write")
    /\ ret.kind = "Ok"
    /\ obs.sess_writes = 2
    /\ ret.n = obs.accepted
====
